---- MODULE Spec2Model ----
(***************************************************************************)
(* Model of core/embed/rust/src/ui/model_tt/component/dialog.rs: the two   *)
(* composite components Dialog<T, U> and IconDialog<T, U>.                  *)
(*                                                                         *)
(* The children (content, controls, image, paragraphs) are arbitrary       *)
(* components: what they answer to place and event is drawn from small     *)
(* sets.  Every call a composite makes on a child is appended to `calls`,  *)
(* so that the order and the number of child calls of the most recent      *)
(* operation can be stated.                                                *)
(***************************************************************************)
EXTENDS Integers, Sequences, FiniteSets, TLC

(* ------------------------------ bounds --------------------------------- *)

\* events delivered to one composite over its lifetime
MaxEvents == 2
\* largest x0 of an input rectangle (its y0 is twice its x0)
MaxOrigin == 1
\* the controls report a height of 0 .. MaxRows button rows
MaxRows == 1
\* successive with_description calls on one IconDialog
MaxDescriptions == 2

(* ----------------------------- Option<T> ------------------------------- *)

None == << >>

Some(x) == << x >>

IsSome(o) == Len(o) = 1

Unwrap(o) == o[1]

(* ------------------------------ geometry ------------------------------- *)

Rect(x0, y0, x1, y1) == [x0 |-> x0, y0 |-> y0, x1 |-> x1, y1 |-> y1]

\* Insets::new(top, right, bottom, left)
Insets(top, right, bottom, left) ==
    [top |-> top, right |-> right, bottom |-> bottom, left |-> left]

InsetsTop(d) == Insets(d, 0, 0, 0)

InsetsBottom(d) == Insets(0, 0, d, 0)

InsetsLeft(d) == Insets(0, 0, 0, d)

height(r) == r.y1 - r.y0

inset(r, i) ==
    Rect(r.x0 + i.left, r.y0 + i.top, r.x1 - i.right, r.y1 - i.bottom)

\* split at offset h from the top edge: <<top slice, remainder>>
split_top(r, h) ==
    << Rect(r.x0, r.y0, r.x1, r.y0 + h), Rect(r.x0, r.y0 + h, r.x1, r.y1) >>

(* ------------------------------- inputs -------------------------------- *)

\* the full display, the rectangle a screen is placed into
ScreenRect == Rect(0, 0, 240, 240)

InputRects == { Rect(x, 2 * x, ScreenRect.x1, ScreenRect.y1) : x \in 0..MaxOrigin }

\* one row of buttons is 48 high
ControlHeights == { 48 * n : n \in 0..MaxRows }

\* how far the controls pull their left edge in / lift their bottom edge
ControlShifts == { 0, 3 }

\* how far a content child shrinks the rectangle it is offered
ContentShrinks == { 0, 1 }

Events == { "TouchStart", "TouchEnd" }

ContentMsgs == { "Changed" }

ControlsMsgs == { "Confirmed", "Cancelled" }

Option(S) == { None } \cup { Some(x) : x \in S }

Texts == { "", "a", "b" }

Icons == { "ICON_A", "ICON_B" }

\* theme.rs is not part of the modelled file: the theme the firmware is built
\* with is one of these
Themes ==
    { [borders |-> Insets(8, 8, 8, 8), BUTTON_SPACING |-> 6, CONTENT_BORDER |-> 5],
      [borders |-> Insets(13, 10, 14, 11), BUTTON_SPACING |-> 4, CONTENT_BORDER |-> 0] }

(* -------------------------------- state -------------------------------- *)

VARIABLES
    theme,       \* the theme constants of the build
    self,        \* the composite: [kind, image, paragraphs]
    ndesc,       \* with_description calls made on self so far
    placed,      \* place has been called on self
    area,        \* child -> Option(Rect): the rectangle the child occupies
    st,          \* child -> number of events the child has received
    op,          \* the most recent call on self: name, arguments, result
    calls,       \* the child calls made by the most recent call, in order
    sunk         \* the rectangles the sink received in the most recent call

vars == << theme, self, ndesc, placed, area, st, op, calls, sunk >>

Children == { "content", "controls", "image", "paragraphs" }

theme_borders == theme.borders

BUTTON_SPACING == theme.BUTTON_SPACING

CONTENT_BORDER == theme.CONTENT_BORDER

ICON_AREA_PADDING == 2

ICON_AREA_HEIGHT == 60

VALUE_SPACE == 5

(* --------------------------- DialogMsg<T, U> --------------------------- *)

Content(m) == << "Content", m >>

Controls(k) == << "Controls", k >>

\* Option::map with the variant constructor `tag`
OptMap(o, tag) == IF IsSome(o) THEN Some(<< tag, Unwrap(o) >>) ELSE None

(* ------------------------- the child components ------------------------ *)

\* one call of a composite on one of its children
Call(child, name, ev, rect, ret_rect, ret_msg) ==
    [child |-> child, name |-> name, ev |-> ev, rect |-> rect,
     ret_rect |-> ret_rect, ret_msg |-> ret_msg]

PlaceCall(child, offered, returned) ==
    Call(child, "place", None, Some(offered), Some(returned), None)

EventCall(child, e, answer) == Call(child, "event", Some(e), None, None, answer)

PaintCall(child) == Call(child, "paint", None, None, None, None)

BoundsCall(child) == Call(child, "bounds", None, None, None, None)

\* the controls choose their own rectangle inside the offered one: c high,
\* pulled in by s from the left and lifted by s from the bottom
ControlsPlace(offered, c, s) ==
    Rect(offered.x0 + s, offered.y1 - s - c, offered.x1, offered.y1 - s)

\* a content child settles on the offered rectangle shrunk by k on every side
ContentPlace(offered, k) == inset(offered, Insets(k, k, k, k))

\* a leaf child reports the one rectangle it occupies
ChildBounds(child) == << Unwrap(area[child]) >>

\* the event calls of `cs` that went to `child`
Received(cs, child) ==
    Cardinality({ i \in 1..Len(cs) : cs[i].child = child /\ cs[i].name = "event" })

\* the most recent call on the composite
Op(name, ev, rect, text, icon, ret_rect, ret_msg) ==
    [name |-> name, ev |-> ev, rect |-> rect, text |-> text, icon |-> icon,
     ret_rect |-> ret_rect, ret_msg |-> ret_msg]

NoArea == [ch \in Children |-> None]

NoEvents == [ch \in Children |-> 0]

(* ------------------- Paragraphs<T> and LinearPlacement ------------------ *)

\* LinearPlacement::vertical()
LinearPlacementVertical == [axis |-> "vertical", align |-> "start", spacing |-> 0]

align_at_center(pl) == [pl EXCEPT !.align = "center"]

with_spacing(pl, spacing) == [pl EXCEPT !.spacing = spacing]

\* Paragraphs::new()
ParagraphsNew == [placement |-> LinearPlacementVertical, list |-> << >>]

with_placement(p, pl) == [p EXCEPT !.placement = pl]

\* Paragraphs::add_color(style, color, text): one more entry after the others
add_color(p, style, color, text) ==
    [p EXCEPT !.list =
        Append(@, [style |-> style, color |-> Some(color), text |-> text,
                   centered |-> FALSE])]

\* Paragraphs::add(style, text): the entry keeps the colour of its style
add(p, style, text) ==
    [p EXCEPT !.list =
        Append(@, [style |-> style, color |-> None, text |-> text,
                   centered |-> FALSE])]

\* Paragraphs::centered(): centres the entry added last
centered(p) ==
    IF p.list = << >>
    THEN p
    ELSE [p EXCEPT !.list[Len(p.list)].centered = TRUE]

(* ------------------------------- Dialog -------------------------------- *)

\* no composite constructed yet
NoSelf == [kind |-> "none", image |-> None, paragraphs |-> ParagraphsNew]

\* Dialog::new(content, controls)
DialogNew == [kind |-> "Dialog", image |-> None, paragraphs |-> ParagraphsNew]

\* as DialogContentArea, with the inter-button spacing forgotten
DialogContentArea_NoSpacing(bounds, controls_area) ==
    inset(inset(bounds, InsetsBottom(height(controls_area))),
          InsetsLeft(CONTENT_BORDER))

\* the rectangle Dialog::place hands to content
DialogContentArea(bounds, controls_area) ==
    inset(inset(inset(bounds, InsetsBottom(height(controls_area))),
                InsetsBottom(BUTTON_SPACING)),
          InsetsLeft(CONTENT_BORDER))

\* as DialogPlaceRet, reporting the area left to content
DialogPlaceRet_Content(bounds, controls_area, content_area) == content_area

\* the rectangle Dialog::place returns
DialogPlaceRet(bounds, controls_area, content_area) == bounds

\* the child calls Dialog::place makes, in order; k is content's own choice
DialogPlaceCalls(bounds, controls_area, content_area, k) ==
    << PlaceCall("controls", bounds, controls_area),
       PlaceCall("content", content_area, ContentPlace(content_area, k)) >>

\* Dialog::place(bounds); c, s and k are the children's choices
DialogPlace(bounds, c, s, k) ==
    /\ self.kind = "Dialog"
    /\ LET controls_area == ControlsPlace(bounds, c, s)
           content_area == DialogContentArea(bounds, controls_area)
       IN  /\ calls' = DialogPlaceCalls(bounds, controls_area, content_area, k)
           /\ area' = [area EXCEPT !.controls = Some(controls_area),
                                   !.content = Some(ContentPlace(content_area, k))]
           /\ op' = Op("place", None, Some(bounds), << >>, None,
                       Some(DialogPlaceRet(bounds, controls_area, content_area)), None)
    /\ placed' = TRUE
    /\ sunk' = << >>
    /\ UNCHANGED << theme, self, ndesc, st >>

\* as DialogEventCalls, with Option::or in place of or_else: controls always asked
DialogEventCalls_Eager(e, cm, km) ==
    << EventCall("content", e, cm), EventCall("controls", e, km) >>

\* the child calls Dialog::event makes: cm is what content answers, km what
\* controls would answer
DialogEventCalls(e, cm, km) ==
    IF IsSome(cm)
    THEN << EventCall("content", e, cm) >>
    ELSE << EventCall("content", e, cm), EventCall("controls", e, km) >>

\* what Dialog::event returns: content.map(Content).or_else(controls.map(Controls))
DialogEventRet(cm, km) ==
    IF IsSome(OptMap(cm, "Content")) THEN OptMap(cm, "Content") ELSE OptMap(km, "Controls")

\* Dialog::event(ctx, e)
DialogEvent(e, cm, km) ==
    /\ self.kind = "Dialog"
    /\ placed
    /\ st.content < MaxEvents
    /\ calls' = DialogEventCalls(e, cm, km)
    /\ st' = [ch \in Children |-> st[ch] + Received(calls', ch)]
    /\ op' = Op("event", Some(e), None, << >>, None, None, DialogEventRet(cm, km))
    /\ sunk' = << >>
    /\ UNCHANGED << theme, self, ndesc, placed, area >>

\* as DialogPaintCalls, controls painted under content
DialogPaintCalls_Swapped == << PaintCall("controls"), PaintCall("content") >>

DialogPaintCalls == << PaintCall("content"), PaintCall("controls") >>

\* Dialog::paint()
DialogPaint ==
    /\ self.kind = "Dialog"
    /\ placed
    /\ calls' = DialogPaintCalls
    /\ op' = Op("paint", None, None, << >>, None, None, None)
    /\ sunk' = << >>
    /\ UNCHANGED << theme, self, ndesc, placed, area, st >>

DialogBoundsCalls == << BoundsCall("content"), BoundsCall("controls") >>

\* what the sink of Dialog::bounds receives
DialogBoundsSink == ChildBounds("content") \o ChildBounds("controls")

\* Dialog::bounds(sink)
DialogBounds ==
    /\ self.kind = "Dialog"
    /\ placed
    /\ calls' = DialogBoundsCalls
    /\ sunk' = DialogBoundsSink
    /\ op' = Op("bounds", None, None, << >>, None, None, None)
    /\ UNCHANGED << theme, self, ndesc, placed, area, st >>

(* ----------------------------- IconDialog ------------------------------ *)

\* IconDialog::new(icon, title, controls)
IconDialogNew(icon, title) ==
    [kind |-> "IconDialog",
     image |-> Some(icon),
     paragraphs |->
        centered(add(with_placement(ParagraphsNew,
                                    with_spacing(align_at_center(LinearPlacementVertical),
                                                 VALUE_SPACE)),
                     "TEXT_MEDIUM", title))]

\* as with_description, without the test for an empty description
with_description_Unchecked(d, description) ==
    [d EXCEPT !.paragraphs =
        centered(add_color(@, "TEXT_NORMAL", "OFF_WHITE", description))]

\* IconDialog::with_description(self, description)
with_description(d, description) ==
    IF description # ""
    THEN [d EXCEPT !.paragraphs =
            centered(add_color(@, "TEXT_NORMAL", "OFF_WHITE", description))]
    ELSE d

\* as new_shares, with the styles of the last two lines exchanged
new_shares_Styles(lines) ==
    [kind |-> "IconDialog",
     image |-> Some("IMAGE_SUCCESS"),
     paragraphs |->
        centered(add_color(
        centered(add(
        centered(add(
        centered(add_color(
            with_placement(ParagraphsNew, align_at_center(LinearPlacementVertical)),
            "TEXT_NORMAL", "OFF_WHITE", lines[1])),
            "TEXT_MEDIUM", lines[2])),
            "TEXT_MEDIUM", lines[3])),
            "TEXT_NORMAL", "OFF_WHITE", lines[4]))]

\* IconDialog::new_shares(lines, controls)
new_shares(lines) ==
    [kind |-> "IconDialog",
     image |-> Some("IMAGE_SUCCESS"),
     paragraphs |->
        centered(add(
        centered(add_color(
        centered(add(
        centered(add_color(
            with_placement(ParagraphsNew, align_at_center(LinearPlacementVertical)),
            "TEXT_NORMAL", "OFF_WHITE", lines[1])),
            "TEXT_MEDIUM", lines[2])),
            "TEXT_NORMAL", "OFF_WHITE", lines[3])),
            "TEXT_MEDIUM", lines[4]))]

\* the shadowing `bounds` of IconDialog::place: borders, then top padding
IconDialogBounds2(bounds) ==
    inset(inset(bounds, theme_borders), InsetsTop(ICON_AREA_PADDING))

\* the region left above the controls
IconDialogContentArea(bounds2, controls_area) ==
    inset(bounds2, InsetsBottom(height(controls_area)))

\* as IconDialogSplit, the top padding counted into the icon slice
IconDialogSplit_Padded(content_area) ==
    split_top(content_area, ICON_AREA_HEIGHT + ICON_AREA_PADDING)

\* <<image_area, content_area>>
IconDialogSplit(content_area) == split_top(content_area, ICON_AREA_HEIGHT)

\* as IconDialogPlaceRet, returning the caller's rectangle as Dialog::place does
IconDialogPlaceRet_Raw(bounds, bounds2) == bounds

\* the rectangle IconDialog::place returns
IconDialogPlaceRet(bounds, bounds2) == bounds2

\* the child calls IconDialog::place makes, in order; k is the paragraphs' choice
IconDialogPlaceCalls(bounds2, controls_area, image_area, content_area, k) ==
    << PlaceCall("controls", bounds2, controls_area),
       PlaceCall("image", image_area, image_area),
       PlaceCall("paragraphs", content_area, ContentPlace(content_area, k)) >>

\* IconDialog::place(bounds); c, s and k are the children's choices
IconDialogPlace(bounds, c, s, k) ==
    /\ self.kind = "IconDialog"
    /\ LET bounds2 == IconDialogBounds2(bounds)
           controls_area == ControlsPlace(bounds2, c, s)
           areas == IconDialogSplit(IconDialogContentArea(bounds2, controls_area))
       IN  /\ calls' = IconDialogPlaceCalls(bounds2, controls_area, areas[1], areas[2], k)
           /\ area' = [area EXCEPT !.controls = Some(controls_area),
                                   !.image = Some(areas[1]),
                                   !.paragraphs = Some(ContentPlace(areas[2], k))]
           /\ op' = Op("place", None, Some(bounds), << >>, None,
                       Some(IconDialogPlaceRet(bounds, bounds2)), None)
    /\ placed' = TRUE
    /\ sunk' = << >>
    /\ UNCHANGED << theme, self, ndesc, st >>

\* as IconDialogEventCalls, the controls asked before the paragraphs
IconDialogEventCalls_Swapped(e, km) ==
    << EventCall("controls", e, km), EventCall("paragraphs", e, None) >>

\* the child calls IconDialog::event makes; Paragraphs::Msg is Never, so the
\* paragraphs can only answer None; km is what controls answers
IconDialogEventCalls(e, km) ==
    << EventCall("paragraphs", e, None), EventCall("controls", e, km) >>

\* what IconDialog::event returns
IconDialogEventRet(km) == OptMap(km, "Controls")

\* IconDialog::event(ctx, e)
IconDialogEvent(e, km) ==
    /\ self.kind = "IconDialog"
    /\ placed
    /\ st.paragraphs < MaxEvents
    /\ calls' = IconDialogEventCalls(e, km)
    /\ st' = [ch \in Children |-> st[ch] + Received(calls', ch)]
    /\ op' = Op("event", Some(e), None, << >>, None, None, IconDialogEventRet(km))
    /\ sunk' = << >>
    /\ UNCHANGED << theme, self, ndesc, placed, area >>

IconDialogPaintCalls == << PaintCall("image"), PaintCall("paragraphs"), PaintCall("controls") >>

\* IconDialog::paint()
IconDialogPaint ==
    /\ self.kind = "IconDialog"
    /\ placed
    /\ calls' = IconDialogPaintCalls
    /\ op' = Op("paint", None, None, << >>, None, None, None)
    /\ sunk' = << >>
    /\ UNCHANGED << theme, self, ndesc, placed, area, st >>

IconDialogBoundsCalls ==
    << BoundsCall("image"), BoundsCall("paragraphs"), BoundsCall("controls") >>

\* as IconDialogBoundsSink, the paragraphs reported before the icon
IconDialogBoundsSink_Swapped ==
    ChildBounds("paragraphs") \o ChildBounds("image") \o ChildBounds("controls")

\* what the sink of IconDialog::bounds receives
IconDialogBoundsSink ==
    ChildBounds("image") \o ChildBounds("paragraphs") \o ChildBounds("controls")

\* IconDialog::bounds(sink)
IconDialogBounds ==
    /\ self.kind = "IconDialog"
    /\ placed
    /\ calls' = IconDialogBoundsCalls
    /\ sunk' = IconDialogBoundsSink
    /\ op' = Op("bounds", None, None, << >>, None, None, None)
    /\ UNCHANGED << theme, self, ndesc, placed, area, st >>

(* ------------------- the life of a constructed screen ------------------- *)

\* the composites a screen starts from, with the with_description calls made
Built ==
    { << DialogNew, 0 >>,
      << IconDialogNew("ICON_A", "a"), 0 >>,
      << with_description(IconDialogNew("ICON_B", "a"), "b"), 1 >>,
      << new_shares(<< "a", "b", "a", "b" >>), 0 >> }

Init ==
    /\ theme \in Themes
    /\ \E b \in Built : self = b[1] /\ ndesc = b[2]
    /\ placed = FALSE
    /\ area = NoArea
    /\ st = NoEvents
    /\ op = Op("constructed", None, None, << >>, None, None, None)
    /\ calls = << >>
    /\ sunk = << >>

DoDialogPlace ==
    \E bounds \in InputRects, c \in ControlHeights, s \in ControlShifts, k \in ContentShrinks :
        DialogPlace(bounds, c, s, k)

DoDialogEvent ==
    \E e \in Events, cm \in Option(ContentMsgs), km \in Option(ControlsMsgs) :
        DialogEvent(e, cm, km)

DoIconDialogPlace ==
    \E bounds \in InputRects, c \in ControlHeights, s \in ControlShifts, k \in ContentShrinks :
        IconDialogPlace(bounds, c, s, k)

DoIconDialogEvent == \E e \in Events, km \in Option(ControlsMsgs) : IconDialogEvent(e, km)

Next ==
    \/ DoDialogPlace
    \/ DoDialogEvent
    \/ DialogPaint
    \/ DialogBounds
    \/ DoIconDialogPlace
    \/ DoIconDialogEvent
    \/ IconDialogPaint
    \/ IconDialogBounds

Spec == Init /\ [][Next]_vars

(* ----------------------- constructing a composite ----------------------- *)

ShareLines == { << a, b, c, d >> : a \in Texts, b \in Texts, c \in Texts, d \in Texts }

InitBuild ==
    /\ theme \in Themes
    /\ self = NoSelf
    /\ ndesc = 0
    /\ placed = FALSE
    /\ area = NoArea
    /\ st = NoEvents
    /\ op = Op("none", None, None, << >>, None, None, None)
    /\ calls = << >>
    /\ sunk = << >>

BuildDialogNew ==
    /\ self.kind = "none"
    /\ self' = DialogNew
    /\ op' = Op("Dialog::new", None, None, << >>, None, None, None)
    /\ UNCHANGED << theme, ndesc, placed, area, st, calls, sunk >>

BuildNew ==
    /\ self.kind = "none"
    /\ \E icon \in Icons, title \in Texts :
        /\ self' = IconDialogNew(icon, title)
        /\ op' = Op("new", None, None, << title >>, Some(icon), None, None)
    /\ UNCHANGED << theme, ndesc, placed, area, st, calls, sunk >>

BuildNewShares ==
    /\ self.kind = "none"
    /\ \E lines \in ShareLines :
        /\ self' = new_shares(lines)
        /\ op' = Op("new_shares", None, None, lines, None, None, None)
    /\ UNCHANGED << theme, ndesc, placed, area, st, calls, sunk >>

BuildWithDescription ==
    /\ self.kind = "IconDialog"
    /\ ndesc < MaxDescriptions
    /\ \E description \in Texts :
        /\ self' = with_description(self, description)
        /\ op' = Op("with_description", None, None, << description >>, None, None, None)
    /\ ndesc' = ndesc + 1
    /\ UNCHANGED << theme, placed, area, st, calls, sunk >>

NextBuild ==
    \/ BuildDialogNew
    \/ BuildNew
    \/ BuildNewShares
    \/ BuildWithDescription

SpecBuild == InitBuild /\ [][NextBuild]_vars

(* ------------------------------ properties ------------------------------ *)

\* C1: Dialog::event gives every event to content first; when content answers
\* a message m the result is Content(m) and controls is not asked in that call;
\* when content answers nothing, controls is asked exactly once with the same
\* event and the result is Controls(k) if it answers k, nothing otherwise.
C1_DialogEventRouting ==
    [][ (self.kind = "Dialog" /\ op'.name = "event") =>
          /\ Len(calls') >= 1
          /\ calls'[1].child = "content"
          /\ calls'[1].name = "event"
          /\ calls'[1].ev = op'.ev
          /\ st'.content = st.content + 1
          /\ IF IsSome(calls'[1].ret_msg)
             THEN /\ Len(calls') = 1
                  /\ st'.controls = st.controls
                  /\ op'.ret_msg = Some(<< "Content", calls'[1].ret_msg[1] >>)
             ELSE /\ Len(calls') = 2
                  /\ calls'[2].child = "controls"
                  /\ calls'[2].name = "event"
                  /\ calls'[2].ev = op'.ev
                  /\ st'.controls = st.controls + 1
                  /\ op'.ret_msg =
                        IF IsSome(calls'[2].ret_msg)
                        THEN Some(<< "Controls", calls'[2].ret_msg[1] >>)
                        ELSE None
      ]_vars

\* a Dialog whose content answered the latest event with a message, after an
\* earlier event had gone through to the controls
C1_Witness ==
    /\ self.kind = "Dialog"
    /\ op.name = "event"
    /\ Len(calls) = 1
    /\ op.ret_msg = Some(<< "Content", "Changed" >>)
    /\ st.content = 2
    /\ st.controls = 1

\* C2: IconDialog::event gives every event to the paragraphs and then to the
\* controls, both in the same call; the result is Controls(k) exactly when the
\* controls answer k, and no IconDialog call ever results in a Content message.
C2_IconDialogEventRouting ==
    self.kind = "IconDialog" =>
        /\ st.paragraphs = st.controls
        /\ IsSome(op.ret_msg) => op.ret_msg[1][1] = "Controls"
        /\ op.name = "event" =>
            /\ Len(calls) = 2
            /\ calls[1].child = "paragraphs"
            /\ calls[1].name = "event"
            /\ calls[1].ev = op.ev
            /\ calls[2].child = "controls"
            /\ calls[2].name = "event"
            /\ calls[2].ev = op.ev
            /\ op.ret_msg =
                  IF IsSome(calls[2].ret_msg)
                  THEN Some(<< "Controls", calls[2].ret_msg[1] >>)
                  ELSE None

\* an IconDialog whose controls answered the second event delivered to it
C2_Witness ==
    /\ self.kind = "IconDialog"
    /\ op.name = "event"
    /\ op.ret_msg = Some(<< "Controls", "Confirmed" >>)
    /\ st.paragraphs = 2

\* C3: Dialog::place returns the rectangle it was given, whatever the
\* children returned from their own place calls.
C3_DialogPlaceReturnsInput ==
    (self.kind = "Dialog" /\ op.name = "place") => op.ret_rect = op.rect

\* a Dialog placed with controls and content that both chose rectangles other
\* than the input
C3_Witness ==
    /\ self.kind = "Dialog"
    /\ op.name = "place"
    /\ area.controls # op.rect
    /\ area.content # op.rect
    /\ calls[2].ret_rect # calls[2].rect
    /\ height(Unwrap(area.controls)) = 48

\* C4: IconDialog::place returns the input rectangle shrunk by the theme's
\* border insets and by 2 more from the top, never the input itself, and
\* independently of what the controls report.
C4_IconDialogPlaceReturnsShrunk ==
    (self.kind = "IconDialog" /\ op.name = "place") =>
        LET b == Unwrap(op.rect)
            r == Unwrap(op.ret_rect)
        IN  /\ r.x0 = b.x0 + theme.borders.left
            /\ r.y0 = b.y0 + theme.borders.top + 2
            /\ r.x1 = b.x1 - theme.borders.right
            /\ r.y1 = b.y1 - theme.borders.bottom
            /\ r # b

\* an IconDialog placed under the theme with unequal borders, the controls
\* reporting one row of buttons
C4_Witness ==
    /\ self.kind = "IconDialog"
    /\ op.name = "place"
    /\ theme.borders.top # theme.borders.bottom
    /\ height(Unwrap(area.controls)) = 48

\* C5: every Dialog::paint paints content then controls, every
\* IconDialog::paint paints icon, paragraphs, controls, each child once,
\* whatever events were delivered before.
C5_PaintOrder ==
    op.name = "paint" =>
        /\ Len(calls) = (IF self.kind = "Dialog" THEN 2 ELSE 3)
        /\ \A i \in 1..Len(calls) :
            /\ calls[i].name = "paint"
            /\ calls[i].child =
                  (IF self.kind = "Dialog"
                   THEN << "content", "controls" >>
                   ELSE << "image", "paragraphs", "controls" >>)[i]

\* a Dialog painted after two events, one answered by content and one that
\* went through to the controls
C5_Witness ==
    /\ self.kind = "Dialog"
    /\ op.name = "paint"
    /\ st.content = 2
    /\ st.controls = 1

\* C6: bounds(sink) on a placed Dialog hands the sink the content rectangle
\* then the controls rectangle, and nothing else; on a placed IconDialog the
\* icon, paragraphs and controls rectangles, in that order.
C6_BoundsOrder ==
    op.name = "bounds" =>
        IF self.kind = "Dialog"
        THEN /\ sunk = << area.content[1], area.controls[1] >>
             /\ calls = << BoundsCall("content"), BoundsCall("controls") >>
        ELSE /\ sunk = << area.image[1], area.paragraphs[1], area.controls[1] >>
             /\ calls = << BoundsCall("image"), BoundsCall("paragraphs"),
                           BoundsCall("controls") >>

\* bounds taken of a placed IconDialog whose three children occupy three
\* different rectangles
C6_Witness ==
    /\ self.kind = "IconDialog"
    /\ op.name = "bounds"
    /\ Len(sunk) = 3
    /\ Cardinality({ sunk[1], sunk[2], sunk[3] }) = 3

\* C7: Dialog::place places the controls first, offering them the whole input,
\* then the content, into the input with the bottom edge raised by the height
\* the controls returned plus BUTTON_SPACING and the left edge moved right by
\* CONTENT_BORDER; top and right edges are the input's.
C7_DialogContentArea ==
    (self.kind = "Dialog" /\ op.name = "place") =>
        LET b == Unwrap(op.rect)
        IN  /\ Len(calls) = 2
            /\ calls[1].child = "controls"
            /\ calls[1].name = "place"
            /\ calls[1].rect = Some(b)
            /\ calls[2].child = "content"
            /\ calls[2].name = "place"
            /\ LET h == Unwrap(calls[1].ret_rect).y1 - Unwrap(calls[1].ret_rect).y0
                   r == Unwrap(calls[2].rect)
               IN  /\ r.x0 = b.x0 + theme.CONTENT_BORDER
                   /\ r.y0 = b.y0
                   /\ r.x1 = b.x1
                   /\ r.y1 = b.y1 - (h + theme.BUTTON_SPACING)

\* a Dialog placed with controls one row high that pulled their rectangle in
\* and up, under the theme with a content border
C7_Witness ==
    /\ self.kind = "Dialog"
    /\ op.name = "place"
    /\ theme.CONTENT_BORDER > 0
    /\ Unwrap(area.controls).x0 # Unwrap(op.rect).x0
    /\ Unwrap(area.controls).y1 # Unwrap(op.rect).y1
    /\ height(Unwrap(area.controls)) = 48

\* C8: IconDialog::place gives the icon the top 60 of what is left of the input
\* after the borders, the top padding of 2 and the controls' height c, and the
\* paragraphs the rest right below, of height H - b_t - b_b - 2 - 60 - c; for
\* the 240 x 240 input, borders of 8 and c = 48 that height is 114.
C8_IconDialogSplit ==
    (self.kind = "IconDialog" /\ op.name = "place") =>
        LET b == Unwrap(op.rect)
            bo == theme.borders
            H == b.y1 - b.y0
        IN  /\ Len(calls) = 3
            /\ calls[1].child = "controls"
            /\ calls[2].child = "image"
            /\ calls[3].child = "paragraphs"
            /\ \A i \in 1..3 : calls[i].name = "place"
            /\ LET c == Unwrap(calls[1].ret_rect).y1 - Unwrap(calls[1].ret_rect).y0
                   icon == Unwrap(calls[2].rect)
                   para == Unwrap(calls[3].rect)
               IN  /\ icon.x0 = b.x0 + bo.left
                   /\ icon.x1 = b.x1 - bo.right
                   /\ icon.y0 = b.y0 + bo.top + 2
                   /\ icon.y1 - icon.y0 = 60
                   /\ para.x0 = icon.x0
                   /\ para.x1 = icon.x1
                   /\ para.y0 = icon.y1
                   /\ para.y1 = b.y1 - bo.bottom - c
                   /\ para.y1 - para.y0 = H - bo.top - bo.bottom - 2 - 60 - c
                   /\ (b = Rect(0, 0, 240, 240) /\ bo = Insets(8, 8, 8, 8) /\ c = 48)
                        => para.y1 - para.y0 = 114

\* the scenario: the full screen, borders of 8, controls 48 high
C8_Witness ==
    /\ self.kind = "IconDialog"
    /\ op.name = "place"
    /\ op.rect = Some(Rect(0, 0, 240, 240))
    /\ theme.borders = Insets(8, 8, 8, 8)
    /\ height(Unwrap(area.controls)) = 48
    /\ height(Unwrap(calls[3].rect)) = 114

\* C9: with_description("") leaves the IconDialog as it was; with a non-empty
\* description it appends one line after the existing ones, normal style,
\* off-white, centred, and changes nothing else; for any number of calls.
C9_WithDescription ==
    [][ op'.name = "with_description" =>
          LET description == op'.text[1]
          IN  /\ self'.kind = self.kind
              /\ self'.image = self.image
              /\ self'.paragraphs.placement = self.paragraphs.placement
              /\ area' = area
              /\ st' = st
              /\ IF description = ""
                 THEN self'.paragraphs.list = self.paragraphs.list
                 ELSE self'.paragraphs.list =
                        self.paragraphs.list \o
                        << [style |-> "TEXT_NORMAL", color |-> << "OFF_WHITE" >>,
                            text |-> description, centered |-> TRUE] >>
      ]_vars

\* an IconDialog::new after two with_description calls, the first with a
\* description, the second with the empty one
C9_Witness ==
    /\ op.name = "with_description"
    /\ op.text = << "" >>
    /\ ndesc = 2
    /\ Len(self.paragraphs.list) = 2
    /\ self.paragraphs.list[2].text = "b"

\* C10: new_shares yields the 4 given lines in order, styled normal, medium,
\* normal, medium, the normal ones off-white, all centred, under the success
\* image; new yields 1 line, the title, medium and centred.
C10_Constructors ==
    /\ op.name = "new_shares" =>
        /\ self.image = << "IMAGE_SUCCESS" >>
        /\ Len(self.paragraphs.list) = 4
        /\ \A i \in 1..4 :
            self.paragraphs.list[i] =
                [style |-> (IF i \in { 1, 3 } THEN "TEXT_NORMAL" ELSE "TEXT_MEDIUM"),
                 color |-> (IF i \in { 1, 3 } THEN << "OFF_WHITE" >> ELSE << >>),
                 text |-> op.text[i],
                 centered |-> TRUE]
    /\ op.name = "new" =>
        /\ self.image = op.icon
        /\ self.paragraphs.list =
            << [style |-> "TEXT_MEDIUM", color |-> << >>, text |-> op.text[1],
                centered |-> TRUE] >>

\* new_shares called with four lines of which neighbours differ
C10_Witness ==
    /\ op.name = "new_shares"
    /\ op.text = << "a", "b", "b", "a" >>
    /\ self.kind = "IconDialog"

====
